---- MODULE Spec2Model ----
(***************************************************************************)
(* Model of the recommendation core of ML-BUSINESS-API:                    *)
(*   app/ml/recommendation_engine  (content, collaborative, hybrid)        *)
(*   app/services/recommendation_service.py (preferences, behaviour,       *)
(*   tracking, popularity).                                                *)
(*                                                                         *)
(* Real numbers are kept exact: a cosine is the pair <<dot^2, n1*n2>>      *)
(* (all weights are non-negative, so squaring keeps the order), and an     *)
(* inverse document frequency is held in tenths.                           *)
(***************************************************************************)
EXTENDS Integers, Sequences, FiniteSets, TLC

\* ------------------------------------------------------------------ bounds
MaxLog == 2
MaxLimit == 3
MaxQueryLog == 2

\* The users a query may name (3 is in no interaction row).
QueryUsers == {1, 2, 3}
ActionKinds == {"view", "click", "share", "purchase"}

\* Token lists of a business's combined text, after the vectorizer's
\* tokenizer and stop-word filter (<<>>: nothing but stop words).
\* Interest lists a query may carry ("spa" is in no document).
InterestLists == {<<>>, <<"auto">>, <<"food", "spa">>}

\* ------------------------------------------------------------- sequences
Min(a, b) == IF a < b THEN a ELSE b

Range(s) == {s[i] : i \in 1..Len(s)}

\* s[:n] for n >= 0
Take(s, n) == SubSeq(s, 1, Min(n, Len(s)))

\* s[a:b] (0-based, half open) for 0 <= a <= b
Slice(s, a, b) == SubSeq(s, a + 1, Min(b, Len(s)))

\* list.index(x): the first position holding x
IndexOf(s, x) == CHOOSE i \in 1..Len(s) : s[i] = x /\ \A j \in 1..(i - 1) : s[j] # x

RECURSIVE SelectSeqIdx(_, _)
\* [s[i] for i in idx]
SelectSeqIdx(s, idx) ==
    IF idx = <<>> THEN <<>> ELSE <<s[Head(idx)]>> \o SelectSeqIdx(s, Tail(idx))

RECURSIVE SumSeq(_)
SumSeq(s) == IF s = <<>> THEN 0 ELSE Head(s) + SumSeq(Tail(s))

NoDup(s) == \A i, j \in 1..Len(s) : i # j => s[i] # s[j]

\* sorted(set(...)) of integers
RECURSIVE SortedSeq(_)
SortedSeq(S) ==
    IF S = {} THEN <<>>
    ELSE LET m == CHOOSE x \in S : \A y \in S : x <= y
         IN  <<m>> \o SortedSeq(S \ {m})

\* All orders in which a set can be listed (list(set(...)): hash order).
Listings(S) == {p \in [1..Cardinality(S) -> S] : \A i, j \in 1..Cardinality(S) : i # j => p[i] # p[j]}

\* cos^2 as a fraction <<numerator, denominator>>; FracLess compares two.
FracLess(a, b) == a[1] * b[2] < b[1] * a[2]

\* np.argsort(score)[::-1]: every index order with scores non-increasing
\* (the order among equal scores depends on the sort kernel of the build).
ArgsortDesc(score) ==
    {p \in Listings(1..Len(score)) :
        \A k \in 1..(Len(score) - 1) : ~(score[p[k]] < score[p[k + 1]])}

\* The same for scores held as fractions.
ArgsortDescFrac(score) ==
    {p \in Listings(1..Len(score)) :
        \A k \in 1..(Len(score) - 1) : ~FracLess(score[p[k]], score[p[k + 1]])}

\* ------------------------------------------------- database (environment)
\* Businesses WHERE IsActive: rows [BusinessID, doc] in table order.
\* user_behavior within the 90-day window: rows [user_id, business_id,
\* action_type] in table order.
Row(u, b, a) == [user_id |-> u, business_id |-> b, action_type |-> a]
Business(id, doc) == [BusinessID |-> id, doc |-> doc]

\* user_behavior.user_id is nullable: a NULL comes back as None.
NullUserId == 0

\* The rows the environment may insert.
BusinessInputs == {Business(1, <<"auto">>), Business(2, <<>>)}
BehaviorInputs == {Row(1, 1, "view"), Row(2, 1, "purchase"), Row(NullUserId, 1, "click")}

\* The databases a query is answered from: every catalog and every log
\* made of these rows.
QueryBusinessInputs == {Business(1, <<"auto">>), Business(2, <<"auto", "food">>),
                        Business(3, <<"food">>)}
QueryBehaviorInputs == {Row(1, 1, "view"), Row(2, 1, "purchase"), Row(2, 2, "click"),
                        Row(1, 2, "share")}

SeqsUpTo(S, n) == UNION {[1..k -> S] : k \in 0..n}

QueryCatalogs ==
    {c \in SeqsUpTo(QueryBusinessInputs, Cardinality(QueryBusinessInputs)) :
        \A i, j \in 1..Len(c) : i # j => c[i].BusinessID # c[j].BusinessID}
QueryLogs == SeqsUpTo(QueryBehaviorInputs, MaxQueryLog)

\* ---------------------------------------------------- ContentBasedRecommender
\* idf = ln((1 + n) / (1 + df)) + 1 in tenths, IdfTab[n][df]
\* (TfidfVectorizer defaults: smooth_idf, natural logarithm).
IdfTab == <<
    <<10>>,
    <<14, 10>>,
    <<17, 13, 10>>,
    <<19, 15, 12, 10>>,
    <<21, 17, 14, 12, 10>> >>

NoMatrix == [isNone |-> TRUE, m |-> <<>>]
Matrix(rows) == [isNone |-> FALSE, m |-> rows]

\* ContentBasedRecommender.__init__
ContentInit == [business_ids |-> <<>>, business_vectors |-> NoMatrix,
                idf |-> [t \in {} |-> 0]]

Count(doc, t) == Cardinality({i \in 1..Len(doc) : doc[i] = t})

Vocabulary(businesses) == UNION {Range(businesses[i].doc) : i \in 1..Len(businesses)}

\* TfidfVectorizer.fit: the idf of every vocabulary term
FitIdf(businesses) ==
    [t \in Vocabulary(businesses) |->
        IdfTab[Len(businesses)]
              [Cardinality({i \in 1..Len(businesses) : t \in Range(businesses[i].doc)})]]

\* TfidfVectorizer.fit_transform: one row of tf * idf per business
\* (the L2 norm is applied where the cosine is taken).
FitTransform(businesses) ==
    [i \in 1..Len(businesses) |->
        [t \in Vocabulary(businesses) |->
            Count(businesses[i].doc, t) * FitIdf(businesses)[t]]]

BusinessIdsOf(businesses) == [i \in 1..Len(businesses) |-> businesses[i].BusinessID]

\* fit_transform raises ValueError (empty vocabulary) when no document
\* holds a token.
ContentTrainRaises(businesses) == businesses # <<>> /\ Vocabulary(businesses) = {}

\* ContentTrain without the reset of business_ids before the loop.
ContentTrainKeepIds(c, businesses) ==
    IF businesses = <<>> THEN c
    ELSE IF Vocabulary(businesses) = {}
         THEN [c EXCEPT !.business_ids = c.business_ids \o BusinessIdsOf(businesses)]
         ELSE [business_ids |-> c.business_ids \o BusinessIdsOf(businesses),
               business_vectors |-> Matrix(FitTransform(businesses)),
               idf |-> FitIdf(businesses)]

\* ContentBasedRecommender.train after the rows are fetched: the state it
\* leaves (also when it raises: business_ids is already rebuilt then).
ContentTrain(c, businesses) ==
    IF businesses = <<>> THEN c
    ELSE IF Vocabulary(businesses) = {}
         THEN [c EXCEPT !.business_ids = BusinessIdsOf(businesses)]
         ELSE [business_ids |-> BusinessIdsOf(businesses),
               business_vectors |-> Matrix(FitTransform(businesses)),
               idf |-> FitIdf(businesses)]

RECURSIVE SumOver(_, _)
\* sum of f[x] for x in S
SumOver(f, S) ==
    IF S = {} THEN 0
    ELSE LET x == CHOOSE y \in S : TRUE IN f[x] + SumOver(f, S \ {x})

\* vectorizer.transform([" ".join(user_interests)]): tf * idf over the
\* fitted vocabulary, terms outside it dropped.
QueryVector(c, interests) ==
    [t \in DOMAIN c.idf |-> Count(interests, t) * c.idf[t]]

\* cosine_similarity(query_vector, business_vectors).flatten(): entry i is
\* cos^2 times the query's squared norm (one positive factor for the whole
\* query), as the fraction <<dot^2, |d|^2>>; <<0, 1>> for a zero vector.
ContentSimilarities(c, interests) ==
    LET q == QueryVector(c, interests)
        V == DOMAIN c.idf
        nq == SumOver([t \in V |-> q[t] * q[t]], V)
    IN  [i \in 1..Len(c.business_vectors.m) |->
            LET d == c.business_vectors.m[i]
                nd == SumOver([t \in V |-> d[t] * d[t]], V)
                dot == SumOver([t \in V |-> q[t] * d[t]], V)
            IN  IF nq = 0 \/ nd = 0 THEN <<0, 1>> ELSE <<dot * dot, nd>>]

\* What ContentBasedRecommender.get_recommendations returns for the index
\* order `order` that argsort()[::-1] produced; an index past the end of
\* business_ids raises IndexError, which the method turns into [].
ContentPick(c, interests, limit, order) ==
    LET sims == ContentSimilarities(c, interests)
        kept == SelectSeq(Take(order, limit), LAMBDA i : sims[i][1] > 0)
    IN  IF \E k \in 1..Len(kept) : kept[k] > Len(c.business_ids) THEN <<>>
        ELSE SelectSeqIdx(c.business_ids, kept)

\* ContentBasedRecommender.get_recommendations: the possible results
ContentRecommendations(c, interests, limit) ==
    IF c.business_vectors.isNone \/ c.business_ids = <<>> THEN {<<>>}
    ELSE {ContentPick(c, interests, limit, order) :
            order \in ArgsortDescFrac(ContentSimilarities(c, interests))}

\* ---------------------------------------------------- CollaborativeFiltering
\* The CASE of the training query: the weight of an action type
ActionWeight(action_type) ==
    CASE action_type = "purchase" -> 3
      [] action_type = "share" -> 2
      [] action_type = "click" -> 1
      [] OTHER -> 0

\* The rows the training query returns: the log joined with the active
\* businesses, each with its weight.
InteractionRows(businesses, behavior) ==
    LET active == {businesses[i].BusinessID : i \in 1..Len(businesses)}
        kept == SelectSeq(behavior, LAMBDA r : r.business_id \in active)
    IN  [i \in 1..Len(kept) |->
            [user_id |-> kept[i].user_id, business_id |-> kept[i].business_id,
             weight |-> ActionWeight(kept[i].action_type)]]

\* CollaborativeFiltering.__init__
CollabInit == [user_similarity_matrix |-> NoMatrix, user_ids |-> <<>>,
               business_ids |-> <<>>, interaction_matrix |-> NoMatrix]

RECURSIVE FillMatrix(_, _, _, _)
\* for r in interactions: interaction_matrix[ui, bi] = r['weight']
FillMatrix(m, interactions, user_ids, business_ids) ==
    IF interactions = <<>> THEN m
    ELSE LET r == Head(interactions)
             ui == IndexOf(user_ids, r.user_id)
             bi == IndexOf(business_ids, r.business_id)
         IN  FillMatrix([m EXCEPT ![ui][bi] = r.weight], Tail(interactions),
                        user_ids, business_ids)

Dot(a, b) == SumSeq([k \in 1..Len(a) |-> a[k] * b[k]])

\* sklearn cosine_similarity(X): cos^2 of rows i and j as a fraction, 0 when
\* either row is all zero
CosineSimilarity(X) ==
    [i \in 1..Len(X) |->
        [j \in 1..Len(X) |->
            IF Dot(X[i], X[i]) = 0 \/ Dot(X[j], X[j]) = 0 THEN <<0, 1>>
            ELSE <<Dot(X[i], X[j]) * Dot(X[i], X[j]), Dot(X[i], X[i]) * Dot(X[j], X[j])>>]]

\* sorted(set(r['user_id'] ...)) raises TypeError when it has to compare
\* None with a number.
CollabTrainRaises(interactions) ==
    \E i, j \in 1..Len(interactions) :
        interactions[i].user_id = NullUserId /\ interactions[j].user_id # NullUserId

\* CollaborativeFiltering.train after the rows are fetched: the state it
\* leaves (when it raises, no field has been assigned yet)
CollabTrain(f, interactions) ==
    IF interactions = <<>> \/ CollabTrainRaises(interactions) THEN f
    ELSE LET user_ids == SortedSeq({interactions[i].user_id : i \in 1..Len(interactions)})
             business_ids == SortedSeq({interactions[i].business_id : i \in 1..Len(interactions)})
             zeros == [u \in 1..Len(user_ids) |-> [b \in 1..Len(business_ids) |-> 0]]
             interaction_matrix == FillMatrix(zeros, interactions, user_ids, business_ids)
         IN  [user_similarity_matrix |-> Matrix(CosineSimilarity(interaction_matrix)),
              user_ids |-> user_ids,
              business_ids |-> business_ids,
              interaction_matrix |-> Matrix(interaction_matrix)]

\* np.argsort(user_similarities)[::-1][1:6] keeps positions 1..5
NeighbourEnd == 6

\* BusinessScores without the step that sets the target's own businesses to 0.
BusinessScoresKeepOwn(f, user_idx, similar) ==
    [b \in 1..Len(f.business_ids) |->
        SumSeq([k \in 1..Len(similar) |-> f.interaction_matrix.m[similar[k]][b]])]

\* np.sum(interaction_matrix[similar_user_indices], axis=0), then the
\* target's own businesses set to 0
BusinessScores(f, user_idx, similar) ==
    [b \in 1..Len(f.business_ids) |->
        IF f.interaction_matrix.m[user_idx][b] > 0 THEN 0
        ELSE SumSeq([k \in 1..Len(similar) |-> f.interaction_matrix.m[similar[k]][b]])]

\* What get_recommendations returns for the two index orders that the two
\* argsort()[::-1] calls produced.
CollabPick(f, user_id, limit, user_order, business_order) ==
    LET user_idx == IndexOf(f.user_ids, user_id)
        scores == BusinessScores(f, user_idx, Slice(user_order, 1, NeighbourEnd))
    IN  SelectSeqIdx(f.business_ids,
                     SelectSeq(Take(business_order, limit), LAMBDA i : scores[i] > 0))

\* CollaborativeFiltering.get_recommendations: the possible results
CollabRecommendations(f, user_id, limit) ==
    IF f.user_similarity_matrix.isNone \/ user_id \notin Range(f.user_ids) THEN {<<>>}
    ELSE LET user_idx == IndexOf(f.user_ids, user_id)
         IN  UNION {
               {CollabPick(f, user_id, limit, uo, bo) :
                  bo \in ArgsortDesc(BusinessScores(f, user_idx, Slice(uo, 1, NeighbourEnd)))} :
               uo \in ArgsortDescFrac(f.user_similarity_matrix.m[user_idx])}

\* ------------------------------------------------------- HybridRecommender
\* HybridMerge with the collaborative half put first.
HybridMergeCollabFirst(content_recs, collab_recs, all_recs, limit) ==
    IF content_recs # <<>> /\ collab_recs # <<>>
    THEN LET content_count == Min(limit \div 2, Len(content_recs))
             collab_count == Min(limit \div 2, Len(collab_recs))
             final_recs == Take(collab_recs, collab_count) \o Take(content_recs, content_count)
             remaining == limit - Len(final_recs)
             additional ==
                 IF remaining > 0
                 THEN Take(SelectSeq(all_recs, LAMBDA r : r \notin Range(final_recs)), remaining)
                 ELSE <<>>
         IN  Take(final_recs \o additional, limit)
    ELSE Take(all_recs, limit)

\* The merge of get_recommendations, for the order `all_recs` in which
\* list(set(content_recs + collab_recs)) lists the union.
HybridMerge(content_recs, collab_recs, all_recs, limit) ==
    IF content_recs # <<>> /\ collab_recs # <<>>
    THEN LET content_count == Min(limit \div 2, Len(content_recs))
             collab_count == Min(limit \div 2, Len(collab_recs))
             final_recs == Take(content_recs, content_count) \o Take(collab_recs, collab_count)
             remaining == limit - Len(final_recs)
             additional ==
                 IF remaining > 0
                 THEN Take(SelectSeq(all_recs, LAMBDA r : r \notin Range(final_recs)), remaining)
                 ELSE <<>>
         IN  Take(final_recs \o additional, limit)
    ELSE Take(all_recs, limit)

\* ============================================================ DataProcessor
\* ------------------------------------------------------------------ bounds
MaxBatch == 2

\* A float that may be NaN; a number is the fraction num / den, den > 0.
NaN == [nan |-> TRUE, num |-> 0, den |-> 1]
Number(num, den) == [nan |-> FALSE, num |-> num, den |-> den]

\* Comparisons with NaN are false.
FloatLess(a, b) == ~a.nan /\ ~b.nan /\ a.num * b.den < b.num * a.den
FloatNonNegative(a) == ~a.nan /\ a.num >= 0

FloatTimes(a, b) ==
    IF a.nan \/ b.nan THEN NaN ELSE Number(a.num * b.num, a.den * b.den)

\* df['action_type'].map(action_weights): a kind outside the dict maps to NaN
ActionWeights(action_type) ==
    CASE action_type = "click" -> Number(1, 1)
      [] action_type = "share" -> Number(2, 1)
      [] action_type = "purchase" -> Number(3, 1)
      [] OTHER -> NaN

\* Timestamps are in hours; Timedelta.days is the whole days of a difference.
HoursPerDay == 24
Days(hours) == hours \div HoursPerDay

MaxOf(S) == CHOOSE m \in S : \A x \in S : x <= m

\* 1 / (1 + days / 30)
RecencyWeight(most_recent, action_timestamp) ==
    Number(30, 30 + Days(most_recent - action_timestamp))

Event(action_type, action_timestamp) ==
    [action_type |-> action_type, action_timestamp |-> action_timestamp]

\* DataProcessor.preprocess_user_behavior_data: the rows with their weight
\* column (has_timestamp: the rows carry the action_timestamp column)
PreprocessUserBehaviorData(behavior_data, has_timestamp) ==
    IF behavior_data = <<>> THEN <<>>
    ELSE LET most_recent ==
                 MaxOf({behavior_data[i].action_timestamp : i \in 1..Len(behavior_data)})
         IN  [i \in 1..Len(behavior_data) |->
                [action_type |-> behavior_data[i].action_type,
                 action_timestamp |-> behavior_data[i].action_timestamp,
                 weight |->
                    IF has_timestamp
                    THEN FloatTimes(ActionWeights(behavior_data[i].action_type),
                                    RecencyWeight(most_recent,
                                                  behavior_data[i].action_timestamp))
                    ELSE ActionWeights(behavior_data[i].action_type)]]

\* The events a batch may hold: every kind, at hours 0, 12, 36 and 756.
TimestampInputs == {0, 12, 36, 756}
EventInputs == {Event(a, t) : a \in ActionKinds, t \in TimestampInputs}

\* =================================================== RecommendationService
\* ------------------------------------------------------------------ bounds
MaxViewAppends == 21
MaxPurchaseAppends == 11

\* track_user_behavior: "if not user_id" takes None and 0 alike
NoUser == 0
TrackUsers == {NoUser, 1, 2}
TrackActions == {"view", "click", "share", "purchase"}

\* The users whose calls may wait together.
TaskUsers == {1, 2}

\* "Keep only recent 20 entries" / "Keep only recent 10 entries"
ViewedCapacity == 20
PurchasedCapacity == 10

\* The append of track_user_behavior without pop(0).
AppendUncapped(list, business_id, capacity) == Append(list, business_id)

\* list.append(business_id), then pop(0) when the list is over capacity
AppendCapped(list, business_id, capacity) ==
    IF Len(list) + 1 > capacity THEN Tail(Append(list, business_id))
    ELSE Append(list, business_id)

NewBehavior == [viewed |-> <<>>, purchased |-> <<>>]

\* self.user_behavior[user_id], created when missing
BehaviorData(behavior, user_id) ==
    IF user_id \in DOMAIN behavior THEN behavior[user_id] ELSE NewBehavior

\* AppendsViewed without the test that the id is not in the list yet.
AppendsViewedAnyId(behavior, user_id, business_id, action) ==
    /\ user_id # NoUser
    /\ action \in {"click", "view"}

AppendsViewed(behavior, user_id, business_id, action) ==
    /\ user_id # NoUser
    /\ action \in {"click", "view"}
    /\ business_id \notin Range(BehaviorData(behavior, user_id).viewed)

AppendsPurchased(behavior, user_id, business_id, action) ==
    /\ user_id # NoUser
    /\ action = "purchase"
    /\ business_id \notin Range(BehaviorData(behavior, user_id).purchased)

\* TrackResult writing the lists of a new entry: what the user had is lost.
TrackResultOverwrites(behavior, user_id, business_id, action) ==
    IF user_id = NoUser THEN behavior
    ELSE LET data == NewBehavior
             viewed == IF AppendsViewed(behavior, user_id, business_id, action)
                       THEN AppendCapped(data.viewed, business_id, ViewedCapacity)
                       ELSE data.viewed
             purchased == IF AppendsPurchased(behavior, user_id, business_id, action)
                          THEN AppendCapped(data.purchased, business_id, PurchasedCapacity)
                          ELSE data.purchased
         IN  [u \in DOMAIN behavior \cup {user_id} |->
                 IF u = user_id THEN [viewed |-> viewed, purchased |-> purchased]
                 ELSE behavior[u]]

\* TrackResult without the return on a missing user id.
TrackResultAnyUser(behavior, user_id, business_id, action) ==
    IF FALSE THEN behavior
    ELSE LET data == BehaviorData(behavior, user_id)
             viewed == IF AppendsViewed(behavior, user_id, business_id, action)
                       THEN AppendCapped(data.viewed, business_id, ViewedCapacity)
                       ELSE data.viewed
             purchased == IF AppendsPurchased(behavior, user_id, business_id, action)
                          THEN AppendCapped(data.purchased, business_id, PurchasedCapacity)
                          ELSE data.purchased
         IN  [u \in DOMAIN behavior \cup {user_id} |->
                 IF u = user_id THEN [viewed |-> viewed, purchased |-> purchased]
                 ELSE behavior[u]]

\* RecommendationService.track_user_behavior: the dictionary it leaves
TrackResult(behavior, user_id, business_id, action) ==
    IF user_id = NoUser THEN behavior
    ELSE LET data == BehaviorData(behavior, user_id)
             viewed == IF AppendsViewed(behavior, user_id, business_id, action)
                       THEN AppendCapped(data.viewed, business_id, ViewedCapacity)
                       ELSE data.viewed
             purchased == IF AppendsPurchased(behavior, user_id, business_id, action)
                          THEN AppendCapped(data.purchased, business_id, PurchasedCapacity)
                          ELSE data.purchased
         IN  [u \in DOMAIN behavior \cup {user_id} |->
                 IF u = user_id THEN [viewed |-> viewed, purchased |-> purchased]
                 ELSE behavior[u]]

\* ------------------------------------------------------------------- text
\* A string is the sequence of its characters.
UpperLetters ==
    <<"A", "B", "C", "D", "E", "F", "G", "H", "I", "J", "K", "L", "M", "N", "O", "P", "Q", "R", "S", "T", "U", "V", "W", "X", "Y", "Z">>
LowerLetters ==
    <<"a", "b", "c", "d", "e", "f", "g", "h", "i", "j", "k", "l", "m", "n", "o", "p", "q", "r", "s", "t", "u", "v", "w", "x", "y", "z">>

LowerChar(c) ==
    IF \E i \in 1..26 : UpperLetters[i] = c
    THEN LowerLetters[CHOOSE i \in 1..26 : UpperLetters[i] = c]
    ELSE c

\* str.lower()
Lower(str) == [i \in 1..Len(str) |-> LowerChar(str[i])]

\* Python's  x in text  for strings
SubstringOf(x, text) ==
    \E i \in 0..(Len(text) - Len(x)) : SubSeq(text, i + 1, i + Len(x)) = x

RECURSIVE Join(_, _)
\* sep.join(parts)
Join(parts, sep) ==
    IF parts = <<>> THEN <<>>
    ELSE IF Len(parts) = 1 THEN parts[1]
    ELSE parts[1] \o sep \o Join(Tail(parts), sep)

RECURSIVE SplitFrom(_, _, _)
SplitFrom(str, i, word) ==
    IF i > Len(str) THEN (IF word = <<>> THEN <<>> ELSE <<word>>)
    ELSE IF str[i] = " "
         THEN (IF word = <<>> THEN <<>> ELSE <<word>>) \o SplitFrom(str, i + 1, <<>>)
         ELSE SplitFrom(str, i + 1, Append(word, str[i]))

\* str.split(): the words between runs of blanks
Split(str) == SplitFrom(str, 1, <<>>)

\* ------------------------------------------------------------ BusinessResponse
\* price: Optional[float] = None, rating: Optional[float] = None
NoPrice == -1
NoRating == -1

BusinessResponse(id, name, description, categories, location, price, rating, review_count) ==
    [id |-> id, name |-> name, description |-> description,
     categories |-> categories, location |-> location, price |-> price,
     rating |-> rating, review_count |-> review_count]

UserPreferences(interests, location, price_range) ==
    [interests |-> interests, location |-> location, price_range |-> price_range]

\* b.rating or 0
RatingOrZero(b) == IF b.rating = NoRating THEN 0 ELSE b.rating

\* The ids of a list of businesses.
Ids(list) == [i \in 1..Len(list) |-> list[i].id]

\* Unique without the test on the ids already seen.
UniqueKeepsAll(list, seen) == list

RECURSIVE Unique(_, _)
\* "Remove duplicates": the first entry of each id, in list order
Unique(list, seen) ==
    IF list = <<>> THEN <<>>
    ELSE IF list[1].id \in seen THEN Unique(Tail(list), seen)
    ELSE <<list[1]>> \o Unique(Tail(list), seen \cup {list[1].id})

\* list.sort with a key that puts i before j when Before(i, j); the sort is
\* stable, so equal keys keep their order in the list
RankIn(list, i, before) ==
    1 + Cardinality({j \in 1..Len(list) :
                        \/ <<j, i>> \in before
                        \/ (<<i, j>> \notin before /\ j < i)})

SortedBy(list, before) ==
    [p \in 1..Len(list) |-> list[CHOOSE i \in 1..Len(list) : RankIn(list, i, before) = p]]

\* ---------------------------------------------------- _get_price_range
PriceRangeOf(price) ==
    IF price = NoPrice THEN "moderate"
    ELSE IF price < 1000 THEN "budget"
    ELSE IF price < 5000 THEN "moderate"
    ELSE "premium"

\* ------------------------------------------- recommend_based_on_preferences
SearchableText(business) ==
    Lower(business.name) \o <<" ">> \o Lower(business.description)
      \o (IF business.categories # <<>>
          THEN <<" ">> \o Join([i \in 1..Len(business.categories) |->
                                   Lower(business.categories[i])], <<" ">>)
          ELSE <<>>)

\* location_match / location_ok
LocationMatch(preferences, business) ==
    IF preferences.location # <<>> /\ business.location # <<>>
    THEN SubstringOf(Lower(preferences.location), Lower(business.location))
    ELSE TRUE

PriceMatch(preferences, business) ==
    IF preferences.price_range # "none" /\ business.price # NoPrice
    THEN PriceRangeOf(business.price) = preferences.price_range
    ELSE TRUE

InterestMatch(preferences, business) ==
    IF preferences.interests # <<>>
    THEN \E i \in 1..Len(preferences.interests) :
            SubstringOf(Lower(preferences.interests[i]), SearchableText(business))
    ELSE TRUE

\* The strict stage: does the first loop append the business?
StrictKeeps(preferences, business) ==
    /\ LocationMatch(preferences, business)
    /\ PriceMatch(preferences, business)
    /\ InterestMatch(preferences, business)

StrictStage(preferences, all_businesses) ==
    SelectSeq(all_businesses, LAMBDA b : StrictKeeps(preferences, b))

\* The relaxed stage entered whenever interests are given.
RelaxedStageRunsAlways(preferences, filtered_businesses) ==
    preferences.interests # <<>>

\* "if not filtered_businesses and preferences.interests"
RelaxedStageRuns(preferences, filtered_businesses) ==
    filtered_businesses = <<>> /\ preferences.interests # <<>>

\* One interest appends the business when one of its words is longer than
\* three characters and occurs in the searchable text.
WordMatch(interest, business) ==
    \E w \in Range(Split(Lower(interest))) :
        Len(w) > 3 /\ SubstringOf(w, SearchableText(business))

RECURSIVE RelaxedAppends(_, _, _)
\* The appends of the relaxed loop for one business: one per matching interest
RelaxedAppends(preferences, business, i) ==
    IF i > Len(preferences.interests) THEN <<>>
    ELSE (IF WordMatch(preferences.interests[i], business) THEN <<business>> ELSE <<>>)
         \o RelaxedAppends(preferences, business, i + 1)

RECURSIVE RelaxedStage(_, _)
RelaxedStage(preferences, all_businesses) ==
    IF all_businesses = <<>> THEN <<>>
    ELSE (IF LocationMatch(preferences, all_businesses[1])
          THEN RelaxedAppends(preferences, all_businesses[1], 1)
          ELSE <<>>)
         \o RelaxedStage(preferences, Tail(all_businesses))

\* unique_businesses.sort(key=lambda b: -(b.rating or 0))
SortByRating(list) ==
    SortedBy(list, {<<i, j>> \in (1..Len(list)) \X (1..Len(list)) :
                       RatingOrZero(list[i]) > RatingOrZero(list[j])})

\* recommend_based_on_preferences over one fetch of the catalog: the strict
\* stage's list, whether the relaxed stage ran, and the list returned
PreferenceResult(preferences, all_businesses) ==
    IF all_businesses = <<>>
    THEN [strict |-> <<>>, relaxed_ran |-> FALSE, recs |-> <<>>]
    ELSE LET strict == StrictStage(preferences, all_businesses)
             runs == RelaxedStageRuns(preferences, strict)
             filtered == IF runs THEN strict \o RelaxedStage(preferences, all_businesses)
                         ELSE strict
         IN  [strict |-> strict, relaxed_ran |-> runs,
              recs |-> SortByRating(Unique(filtered, {}))]

\* ---------------------------------------------- get_popular_businesses
\* all_businesses[:10]
PopularCap == 10

PopularKeyLess(a, b) ==
    \/ RatingOrZero(a) < RatingOrZero(b)
    \/ RatingOrZero(a) = RatingOrZero(b) /\ a.review_count < b.review_count

\* sort(key=((rating or 0), (review_count or 0)), reverse=True), then [:10]
PopularBusinesses(all_businesses) ==
    Take(SortedBy(all_businesses,
                  {<<i, j>> \in (1..Len(all_businesses)) \X (1..Len(all_businesses)) :
                      PopularKeyLess(all_businesses[j], all_businesses[i])}),
         PopularCap)

\* ---------------------------------------------- recommend_based_on_behavior
\* any(cat in business.categories for cat in b.categories)
SharesCategory(business, b) ==
    Range(b.categories) \cap Range(business.categories) # {}

\* next((b for b in all_businesses if b.id == business_id), None), as a list
FindBusiness(all_businesses, business_id) ==
    SelectSeq(all_businesses, LAMBDA b : b.id = business_id)

\* similar = [b for b in all_businesses if b.id != business_id and any(...)]
Similar(all_businesses, business_id) ==
    LET found == FindBusiness(all_businesses, business_id)
    IN  IF found = <<>> THEN <<>>
        ELSE SelectSeq(all_businesses,
                       LAMBDA b : b.id # business_id /\ SharesCategory(found[1], b))

RECURSIVE SimilarToAll(_, _)
\* The loop over a list of ids, extending recommendations by each one's similar
SimilarToAll(all_businesses, ids) ==
    IF ids = <<>> THEN <<>>
    ELSE Similar(all_businesses, ids[1]) \o SimilarToAll(all_businesses, Tail(ids))

\* BehaviorRecommendations without the second loop over the viewed businesses.
BehaviorRecommendationsPurchasedOnly(all_businesses, viewed, purchased) ==
    Unique(SimilarToAll(all_businesses, purchased), {})

\* unique_recommendations, before the fall back to the popular businesses
BehaviorRecommendations(all_businesses, viewed, purchased) ==
    LET from_purchased == SimilarToAll(all_businesses, purchased)
        recommendations ==
            IF from_purchased = <<>> /\ viewed # <<>>
            THEN SimilarToAll(all_businesses, viewed)
            ELSE from_purchased
    IN  Unique(recommendations, {})

\* ------------------------------------------------------------------ state
VARIABLES
    catalog,        \* Businesses WHERE IsActive, in table order
    behavior_log,   \* user_behavior rows inside the window, in table order
    content_based,  \* HybridRecommender.content_based
    collaborative,  \* HybridRecommender.collaborative
    is_trained,     \* HybridRecommender.is_trained
    pc,             \* where HybridRecommender.train stands
    pre,            \* history: the recommender as the running pass found it
    tainted,        \* history: the database changed while the pass was running
    stable,         \* history: a pass succeeded since the database last changed
    midObs,         \* history: what queries read while the pass was running
    lastQ,          \* the query being answered, with its result
    user_behavior,  \* RecommendationService.user_behavior
    appended,       \* history: the ids appended to each list, in order
    businesses,     \* the Businesses table get_all_businesses reads
    svc,            \* the service call being answered, with its result
    anonymous,      \* history: the last track_user_behavior call had no user id
    batch,          \* the behaviour rows handed to DataProcessor
    df,             \* the frame preprocess_user_behavior_data returned
    tasks,          \* the track_user_behavior calls that wait for the event loop
    recorded,       \* history: the ids named by the calls that have run
    raced,          \* history: a call evicted while a call of its user waited
    repeated,       \* history: a call named an id that its full list held
    trainer,        \* where ModelTrainer.train_and_evaluate stands, and its outcome
    recommendation_models   \* the rows of the recommendation_models table

engineVars == <<catalog, behavior_log, content_based, collaborative, is_trained,
                pc, pre, tainted, stable, midObs, lastQ>>

serviceVars == <<user_behavior, appended, businesses, svc, anonymous>>

processorVars == <<batch, df>>

loopVars == <<tasks, recorded, raced, repeated>>

trainerVars == <<trainer, recommendation_models>>

vars == <<engineVars, serviceVars, processorVars, loopVars, trainerVars>>

NoQuery == [kind |-> "none"]
NoCall == [kind |-> "none"]
NoFrame == [returned |-> FALSE, rows |-> <<>>]
NoBatch == [rows |-> <<>>, has_timestamp |-> FALSE]
NoSnapshot == [content_based |-> ContentInit, collaborative |-> CollabInit,
               is_trained |-> FALSE]

\* The recommender's whole state, as a query or a pass finds it.
Snapshot == [content_based |-> content_based, collaborative |-> collaborative,
             is_trained |-> is_trained]

\* HybridRecommender.__init__, and an empty database
EngineInit ==
    /\ catalog = <<>>
    /\ behavior_log = <<>>
    /\ content_based = ContentInit
    /\ collaborative = CollabInit
    /\ is_trained = FALSE
    /\ pc = "idle"
    /\ pre = NoSnapshot
    /\ tainted = FALSE
    /\ stable = FALSE
    /\ midObs = {}
    /\ lastQ = NoQuery

\* ---------------------------------------------------- environment actions
\* A business becomes active.
InsertBusiness(b) ==
    /\ lastQ = NoQuery
    /\ \A i \in 1..Len(catalog) : catalog[i].BusinessID # b.BusinessID
    /\ catalog' = Append(catalog, b)
    /\ tainted' = (pc # "idle")
    /\ stable' = FALSE
    /\ UNCHANGED <<behavior_log, content_based, collaborative, is_trained, pc,
                   pre, midObs, lastQ>>

\* A business stops being active.
DeactivateBusiness(i) ==
    /\ lastQ = NoQuery
    /\ i \in 1..Len(catalog)
    /\ catalog' = SubSeq(catalog, 1, i - 1) \o SubSeq(catalog, i + 1, Len(catalog))
    /\ tainted' = (pc # "idle")
    /\ stable' = FALSE
    /\ UNCHANGED <<behavior_log, content_based, collaborative, is_trained, pc,
                   pre, midObs, lastQ>>

\* An interaction is logged.
RecordInteraction(r) ==
    /\ lastQ = NoQuery
    /\ Len(behavior_log) < MaxLog
    /\ behavior_log' = Append(behavior_log, r)
    /\ tainted' = (pc # "idle")
    /\ stable' = FALSE
    /\ UNCHANGED <<catalog, content_based, collaborative, is_trained, pc,
                   pre, midObs, lastQ>>

\* The oldest interaction leaves the 90-day window.
ExpireInteraction ==
    /\ lastQ = NoQuery
    /\ behavior_log # <<>>
    /\ behavior_log' = Tail(behavior_log)
    /\ tainted' = (pc # "idle")
    /\ stable' = FALSE
    /\ UNCHANGED <<catalog, content_based, collaborative, is_trained, pc,
                   pre, midObs, lastQ>>

\* -------------------------------------------------- HybridRecommender.train
\* train() is called and waits for the content query.
TrainStart ==
    /\ lastQ = NoQuery
    /\ pc = "idle"
    /\ pc' = "content"
    /\ pre' = Snapshot
    /\ midObs' = {}
    /\ UNCHANGED <<catalog, behavior_log, content_based, collaborative,
                   is_trained, tainted, stable, lastQ>>

\* The content query answers (or the connection raises): ContentBased-
\* Recommender.train runs to its end, and on success train() goes on to
\* wait for the interaction query.
ContentTrainStep(db_ok) ==
    /\ lastQ = NoQuery
    /\ pc = "content"
    /\ IF ~db_ok
       THEN /\ is_trained' = FALSE
            /\ pc' = "done"
            /\ UNCHANGED content_based
       ELSE /\ content_based' = ContentTrain(content_based, catalog)
            /\ IF ContentTrainRaises(catalog)
               THEN is_trained' = FALSE /\ pc' = "done"
               ELSE pc' = "collab" /\ UNCHANGED is_trained
    /\ UNCHANGED <<catalog, behavior_log, collaborative, pre, tainted, stable,
                   midObs, lastQ>>

\* The interaction query answers (or raises): CollaborativeFiltering.train
\* runs to its end and train() sets is_trained, or clears it on an exception.
CollabTrainStep(db_ok) ==
    /\ lastQ = NoQuery
    /\ pc = "collab"
    /\ IF ~db_ok \/ CollabTrainRaises(InteractionRows(catalog, behavior_log))
       THEN /\ is_trained' = FALSE
            /\ UNCHANGED collaborative
       ELSE /\ collaborative' =
                  CollabTrain(collaborative, InteractionRows(catalog, behavior_log))
            /\ is_trained' = TRUE
    /\ pc' = "done"
    /\ UNCHANGED <<catalog, behavior_log, content_based, pre, tainted, stable,
                   midObs, lastQ>>

\* train() returns to its caller.
TrainReturn ==
    /\ lastQ = NoQuery
    /\ pc = "done"
    /\ pc' = "idle"
    /\ pre' = NoSnapshot
    /\ midObs' = {}
    /\ tainted' = FALSE
    /\ stable' = (is_trained /\ ~tainted)
    /\ UNCHANGED <<catalog, behavior_log, content_based, collaborative,
                   is_trained, lastQ>>

\* ------------------------------------ HybridRecommender.get_recommendations
\* The results get_recommendations may return: it has no await that yields,
\* so it runs in one step.
HybridResults(user_id, user_interests, limit) ==
    IF ~is_trained THEN {[content_recs |-> <<>>, collab_recs |-> <<>>, recs |-> <<>>]}
    ELSE UNION { UNION {
            {[content_recs |-> cr, collab_recs |-> fr,
              recs |-> HybridMerge(cr, fr, all_recs, limit)] :
                all_recs \in Listings(Range(cr) \cup Range(fr))} :
            fr \in CollabRecommendations(collaborative, user_id, limit * 2)} :
            cr \in IF user_interests # <<>>
                   THEN ContentRecommendations(content_based, user_interests, limit * 2)
                   ELSE {<<>>} }

Query(user_id, user_interests, limit) ==
    /\ lastQ = NoQuery
    /\ \E r \in HybridResults(user_id, user_interests, limit) :
          lastQ' = [kind |-> "hybrid", user_id |-> user_id,
                    user_interests |-> user_interests, limit |-> limit,
                    content_recs |-> r.content_recs, collab_recs |-> r.collab_recs,
                    recs |-> r.recs]
    /\ midObs' = IF pc \in {"content", "collab"} /\ is_trained
                 THEN midObs \cup {Snapshot} ELSE midObs
    /\ UNCHANGED <<catalog, behavior_log, content_based, collaborative,
                   is_trained, pc, pre, tainted, stable>>

\* The users whose rows get_recommendations sums, for the index order the
\* first argsort()[::-1] produced.
CollabNeighbours(f, user_order) ==
    SelectSeqIdx(f.user_ids, Slice(user_order, 1, NeighbourEnd))

\* CollaborativeFiltering.get_recommendations called on its own; the answer
\* is recorded with the neighbours it was computed from.
CollabQuery(user_id, limit) ==
    /\ lastQ = NoQuery
    /\ IF collaborative.user_similarity_matrix.isNone
          \/ user_id \notin Range(collaborative.user_ids)
       THEN lastQ' = [kind |-> "collab", user_id |-> user_id, limit |-> limit,
                      neighbours |-> <<>>, recs |-> <<>>]
       ELSE LET user_idx == IndexOf(collaborative.user_ids, user_id)
            IN  \E uo \in ArgsortDescFrac(collaborative.user_similarity_matrix.m[user_idx]) :
                  \E bo \in ArgsortDesc(BusinessScores(collaborative, user_idx,
                                                       Slice(uo, 1, NeighbourEnd))) :
                     lastQ' = [kind |-> "collab", user_id |-> user_id, limit |-> limit,
                               neighbours |-> CollabNeighbours(collaborative, uo),
                               recs |-> CollabPick(collaborative, user_id, limit, uo, bo)]
    /\ UNCHANGED <<catalog, behavior_log, content_based, collaborative,
                   is_trained, pc, pre, tainted, stable, midObs>>

\* ContentBasedRecommender.get_recommendations called on its own
ContentQuery(user_interests, limit) ==
    /\ lastQ = NoQuery
    /\ \E r \in ContentRecommendations(content_based, user_interests, limit) :
          lastQ' = [kind |-> "content", user_interests |-> user_interests,
                    limit |-> limit, recs |-> r]
    /\ UNCHANGED <<catalog, behavior_log, content_based, collaborative,
                   is_trained, pc, pre, tainted, stable, midObs>>

\* The answer is handed to the caller.
Respond ==
    /\ lastQ # NoQuery
    /\ lastQ' = NoQuery
    /\ UNCHANGED <<catalog, behavior_log, content_based, collaborative,
                   is_trained, pc, pre, tainted, stable, midObs>>

\* RecommendationService.__init__, before any business is known
ServiceInit ==
    /\ user_behavior = <<>>
    /\ appended = <<>>
    /\ businesses = <<>>
    /\ svc = NoCall
    /\ anonymous = FALSE

\* No batch has been handed to DataProcessor.
ProcessorInit ==
    /\ batch = NoBatch
    /\ df = NoFrame

\* No call of track_user_behavior has arrived.
LoopInit ==
    /\ tasks = {}
    /\ recorded = [u \in TaskUsers |-> [viewed |-> {}, purchased |-> {}]]
    /\ raced = FALSE
    /\ repeated = FALSE

\* ModelTrainer.__init__, and an empty recommendation_models table
NoRun == [pc |-> "idle", passed |-> FALSE, outcome |-> "none", stored |-> FALSE]

TrainerInit ==
    /\ trainer = NoRun
    /\ recommendation_models = <<>>

Init == EngineInit /\ ServiceInit /\ ProcessorInit /\ LoopInit /\ TrainerInit

EngineNext ==
    \/ \E b \in BusinessInputs : InsertBusiness(b)
    \/ \E i \in 1..2 : DeactivateBusiness(i)
    \/ \E r \in BehaviorInputs : RecordInteraction(r)
    \/ ExpireInteraction
    \/ TrainStart
    \/ \E db_ok \in BOOLEAN : ContentTrainStep(db_ok)
    \/ \E db_ok \in BOOLEAN : CollabTrainStep(db_ok)
    \/ TrainReturn
    \/ \E u \in {1}, ints \in {<<"auto">>}, limit \in {MaxLimit} :
          Query(u, ints, limit)
    \/ Respond

Next == EngineNext /\ UNCHANGED <<serviceVars, processorVars, loopVars, trainerVars>>

Spec == Init /\ [][Next]_vars

\* Queries against a recommender trained on a database that stays as it is.
QueryInit ==
    /\ catalog \in QueryCatalogs
    /\ behavior_log \in QueryLogs
    /\ content_based = ContentInit
    /\ collaborative = CollabInit
    /\ is_trained = FALSE
    /\ pc = "idle"
    /\ pre = NoSnapshot
    /\ tainted = FALSE
    /\ stable = FALSE
    /\ midObs = {}
    /\ lastQ = NoQuery
    /\ ServiceInit
    /\ ProcessorInit
    /\ LoopInit
    /\ TrainerInit

QueryEngineNext ==
    \/ TrainStart
    \/ \E db_ok \in {TRUE} : ContentTrainStep(db_ok)
    \/ \E db_ok \in {TRUE} : CollabTrainStep(db_ok)
    \/ TrainReturn
    \/ \E u \in QueryUsers, ints \in InterestLists, limit \in 0..MaxLimit :
          Query(u, ints, limit)
    \/ \E u \in QueryUsers, limit \in 0..MaxLimit : CollabQuery(u, limit)
    \/ \E ints \in InterestLists, limit \in 0..MaxLimit : ContentQuery(ints, limit)
    \/ Respond

QueryNext == QueryEngineNext /\ UNCHANGED <<serviceVars, processorVars, loopVars, trainerVars>>

SpecQuery == QueryInit /\ [][QueryNext]_vars

\* ------------------------------------------ ModelTrainer.train_and_evaluate
\* The row _save_model_metadata writes (ON DUPLICATE KEY UPDATE keeps one
\* row per model and version).
ModelRow == [model_name |-> "hybrid_recommender", version |-> "1.0.0", is_active |-> TRUE]

\* train_and_evaluate is called: it awaits self.recommender.train.
TrainAndEvaluate ==
    /\ trainer.pc = "idle"
    /\ TrainStart
    /\ trainer' = [NoRun EXCEPT !.pc = "train"]
    /\ UNCHANGED recommendation_models

\* recommender.train returns (it raises nothing: its except clause only
\* clears is_trained); train_and_evaluate builds its metrics.
TrainReturned ==
    /\ trainer.pc = "train"
    /\ TrainReturn
    /\ trainer' = [trainer EXCEPT !.pc = "save", !.passed = is_trained]
    /\ UNCHANGED recommendation_models

\* _save_model_metadata: the INSERT and the commit go through and the
\* metrics are returned, or the connection raises and the error is re-raised.
SaveModelMetadata(db_ok) ==
    /\ trainer.pc = "save"
    /\ IF db_ok
       THEN /\ recommendation_models' = <<ModelRow>>
            /\ trainer' = [trainer EXCEPT !.pc = "returned", !.outcome = "metrics",
                                          !.stored = TRUE]
       ELSE /\ trainer' = [trainer EXCEPT !.pc = "returned", !.outcome = "raised"]
            /\ UNCHANGED recommendation_models
    /\ UNCHANGED engineVars

\* The caller has the metrics or the error.
TrainerDone ==
    /\ trainer.pc = "returned"
    /\ trainer' = NoRun
    /\ UNCHANGED <<recommendation_models, engineVars>>

\* The databases train_and_evaluate is run on.
TrainerCatalogs ==
    {c \in SeqsUpTo(BusinessInputs, Cardinality(BusinessInputs)) :
        \A i, j \in 1..Len(c) : i # j => c[i].BusinessID # c[j].BusinessID}
TrainerLogs == SeqsUpTo(BehaviorInputs, MaxLog)

TrainerSpecInit ==
    /\ catalog \in TrainerCatalogs
    /\ behavior_log \in TrainerLogs
    /\ content_based = ContentInit
    /\ collaborative = CollabInit
    /\ is_trained = FALSE
    /\ pc = "idle"
    /\ pre = NoSnapshot
    /\ tainted = FALSE
    /\ stable = FALSE
    /\ midObs = {}
    /\ lastQ = NoQuery
    /\ ServiceInit
    /\ ProcessorInit
    /\ LoopInit
    /\ TrainerInit

TrainerEngineNext ==
    \/ TrainAndEvaluate
    \/ (\E db_ok \in BOOLEAN : ContentTrainStep(db_ok)) /\ UNCHANGED trainerVars
    \/ (\E db_ok \in BOOLEAN : CollabTrainStep(db_ok)) /\ UNCHANGED trainerVars
    \/ TrainReturned
    \/ \E db_ok \in BOOLEAN : SaveModelMetadata(db_ok)
    \/ TrainerDone

TrainerNext == TrainerEngineNext /\ UNCHANGED <<serviceVars, processorVars, loopVars>>

SpecTrainer == TrainerSpecInit /\ [][TrainerNext]_vars

\* ------------------------------------------------------------------ claims

\* C1: the list HybridRecommender.get_recommendations returns holds no
\* business id twice and is no longer than limit.
C1_NoDuplicatesWithinLimit ==
    lastQ.kind = "hybrid" =>
        NoDup(lastQ.recs) /\ Len(lastQ.recs) <= lastQ.limit

\* C2: when a successful training pass ends, every query answered while it
\* ran has read either the content index and the collaborative engine the
\* pass found, or the two it leaves.
C2_QuerySeesOldOrNew ==
    (pc = "done" /\ is_trained) =>
        \A o \in midObs :
            \/ /\ o.content_based = pre.content_based
               /\ o.collaborative = pre.collaborative
            \/ /\ o.content_based = content_based
               /\ o.collaborative = collaborative

\* The cell of user_id and business_id in the interaction matrix.
Cell(f, user_id, business_id) ==
    f.interaction_matrix.m[IndexOf(f.user_ids, user_id)][IndexOf(f.business_ids, business_id)]

\* C4: CollaborativeFiltering.get_recommendations returns no business whose
\* cell in the queried user's row of the interaction matrix is above zero.
C4_NeverReturnsInteracted ==
    /\ lastQ.kind = "collab" =>
          \A k \in 1..Len(lastQ.recs) :
              ~(Cell(collaborative, lastQ.user_id, lastQ.recs[k]) > 0)
    /\ lastQ.kind = "hybrid" =>
          \A k \in 1..Len(lastQ.collab_recs) :
              ~(Cell(collaborative, lastQ.user_id, lastQ.collab_recs[k]) > 0)

\* A call for a user of the snapshot who has weight on a business that
\* another user has weight on too, with room for it in the result.
C4_Witness ==
    /\ lastQ.kind = "collab"
    /\ lastQ.limit > 0
    /\ lastQ.user_id \in Range(collaborative.user_ids)
    /\ \E b \in Range(collaborative.business_ids) :
          /\ Cell(collaborative, lastQ.user_id, b) > 0
          /\ \E v \in Range(collaborative.user_ids) :
                v # lastQ.user_id /\ Cell(collaborative, v, b) > 0

\* C5: a pass that fetches an empty interaction log leaves a collaborative
\* engine that returns [] for every user, and a pass that fetches an empty
\* catalog leaves a content index that returns [] for every query.
C5_EmptyInputLeavesUntrained ==
    [][ /\ (pc = "collab" /\ pc' = "done" /\ is_trained'
            /\ InteractionRows(catalog, behavior_log) = <<>>)
           => \A u \in QueryUsers, limit \in 0..MaxLimit :
                 CollabRecommendations(collaborative', u, limit) = {<<>>}
        /\ (pc = "content" /\ pc' = "collab" /\ catalog = <<>>)
           => \A ints \in InterestLists, limit \in 0..MaxLimit :
                 ContentRecommendations(content_based', ints, limit) = {<<>>}
      ]_vars

\* C10: a successful pass that follows a successful pass, with no change of
\* the catalog or the log since the first began, leaves the recommender as
\* it found it: id orderings, matrices, vectors and is_trained.
C10_TrainTwiceSameState ==
    (pc = "done" /\ is_trained /\ stable /\ ~tainted) =>
        /\ content_based = pre.content_based
        /\ collaborative = pre.collaborative
        /\ is_trained = pre.is_trained

\* The second of two passes over a catalog and a log that are not empty.
C10_Witness ==
    /\ pc = "done" /\ is_trained /\ stable /\ ~tainted
    /\ ~content_based.business_vectors.isNone
    /\ ~collaborative.interaction_matrix.isNone
    /\ Len(content_based.business_ids) = 2
    /\ Len(collaborative.user_ids) = 2

\* ------------------------------------------------------ track_user_behavior
\* The largest id in a list of appended ids (0 for none).
MaxId(ids) == IF ids = <<>> THEN 0 ELSE CHOOSE m \in Range(ids) : \A x \in Range(ids) : x <= m

AppendedOf(user_id) ==
    IF user_id \in DOMAIN appended THEN appended[user_id] ELSE NewBehavior

TotalAppended(list) ==
    SumSeq([k \in 1..Cardinality(DOMAIN appended) |->
               Len(appended[SortedSeq(DOMAIN appended)[k]][list])])

\* One call of track_user_behavior.
TrackUserBehavior(user_id, business_id, action) ==
    LET av == AppendsViewed(user_behavior, user_id, business_id, action)
        ap == AppendsPurchased(user_behavior, user_id, business_id, action)
        log == AppendedOf(user_id)
    IN  /\ svc = NoCall
        /\ user_behavior' = TrackResult(user_behavior, user_id, business_id, action)
        /\ appended' =
              IF user_id = NoUser THEN appended
              ELSE [u \in DOMAIN appended \cup {user_id} |->
                      IF u = user_id
                      THEN [viewed |-> IF av THEN Append(log.viewed, business_id)
                                       ELSE log.viewed,
                            purchased |-> IF ap THEN Append(log.purchased, business_id)
                                          ELSE log.purchased]
                      ELSE appended[u]]
        /\ anonymous' = (user_id = NoUser)
        /\ UNCHANGED <<businesses, svc>>

\* Business ids are opaque to the tracker, so a user's ids are numbered in
\* the order in which a list first meets them, up to the budget of appends.
TrackInput(user_id, business_id, action) ==
    /\ AppendsViewed(user_behavior, user_id, business_id, action) =>
          /\ business_id <= MaxId(AppendedOf(user_id).viewed) + 1
          /\ TotalAppended("viewed") < MaxViewAppends
    /\ AppendsPurchased(user_behavior, user_id, business_id, action) =>
          /\ business_id <= MaxId(AppendedOf(user_id).purchased) + 1
          /\ TotalAppended("purchased") < MaxPurchaseAppends

TrackInit ==
    /\ EngineInit
    /\ ServiceInit
    /\ ProcessorInit
    /\ LoopInit
    /\ TrainerInit

\* The list of the user that the action appends to (none for a share).
TargetLog(user_id, action) ==
    IF action \in {"click", "view"} THEN AppendedOf(user_id).viewed
    ELSE IF action = "purchase" THEN AppendedOf(user_id).purchased
    ELSE <<>>

TargetList(user_id, action) ==
    IF action \in {"click", "view"} THEN BehaviorData(user_behavior, user_id).viewed
    ELSE IF action = "purchase" THEN BehaviorData(user_behavior, user_id).purchased
    ELSE <<>>

\* The business ids a call may name: id 1, the ids its list has met and
\* dropped, and one id more; a low and a high id for a call without a user.
CandidateIds(user_id, action) ==
    IF user_id = NoUser THEN {1, MaxViewAppends}
    ELSE {1} \cup {b \in 1..Min(MaxViewAppends, 1 + MaxId(TargetLog(user_id, action))) :
                     b \notin Range(TargetList(user_id, action))}

TrackNext ==
    /\ \E u \in TrackUsers, a \in TrackActions :
          \E b \in CandidateIds(u, a) :
             TrackInput(u, b, a) /\ TrackUserBehavior(u, b, a)
    /\ UNCHANGED <<engineVars, processorVars, loopVars, trainerVars>>

SpecTrack == TrackInit /\ [][TrackNext]_vars

\* ----------------------------------- track_user_behavior on the event loop
\* track_user_behavior holds no await, so the loop runs a call from its first
\* statement to its return before it runs anything else; the calls that
\* have arrived wait, and the loop may take them in any order.
MaxTasks == 2

TrackCall(user_id, business_id, action) ==
    [user_id |-> user_id, business_id |-> business_id, action |-> action]

\* The ids a waiting call may name for user 1: id 1 and the first id that no
\* call of the same kind has named; user 2 names id 1 only.
FreshId(action) ==
    IF action = "purchase" THEN 1 + Cardinality(recorded[1].purchased)
    ELSE 1 + Cardinality(recorded[1].viewed)

TaskInputs ==
    {TrackCall(1, 1, a) : a \in {"view", "purchase"}}
    \cup {TrackCall(1, FreshId(a), a) : a \in {"view", "purchase"}}
    \cup {TrackCall(1, 1, "share"), TrackCall(2, 1, "click")}

\* A request arrives: its call waits for the loop.
Arrive(c) ==
    /\ Cardinality(tasks) < MaxTasks
    /\ c \notin tasks
    /\ c.action = "purchase" => c.business_id <= MaxPurchaseAppends
    /\ c.action \in {"click", "view"} => c.business_id <= MaxViewAppends
    /\ tasks' = tasks \cup {c}
    /\ UNCHANGED <<serviceVars, recorded, raced, repeated>>

\* The target list of the call is at its capacity.
TargetFull(c) ==
    \/ c.action \in {"click", "view"}
          /\ Len(TargetList(c.user_id, c.action)) = ViewedCapacity
    \/ c.action = "purchase"
          /\ Len(TargetList(c.user_id, c.action)) = PurchasedCapacity

\* The loop runs one waiting call to its return.
Run(c) ==
    /\ c \in tasks
    /\ TrackUserBehavior(c.user_id, c.business_id, c.action)
    /\ tasks' = tasks \ {c}
    /\ recorded' =
          [recorded EXCEPT
              ![c.user_id].viewed =
                  IF c.action \in {"click", "view"} THEN @ \cup {c.business_id} ELSE @,
              ![c.user_id].purchased =
                  IF c.action = "purchase" THEN @ \cup {c.business_id} ELSE @]
    /\ raced' = (\/ raced
                 \/ /\ TargetFull(c)
                    /\ c.business_id \notin Range(TargetList(c.user_id, c.action))
                    /\ \E d \in tasks \ {c} : d.user_id = c.user_id)
    /\ repeated' = (\/ repeated
                    \/ /\ TargetFull(c)
                       /\ c.business_id \in Range(TargetList(c.user_id, c.action)))

LoopNext ==
    /\ \/ \E c \in TaskInputs : Arrive(c)
       \/ \E c \in tasks : Run(c)
    /\ UNCHANGED <<engineVars, processorVars, trainerVars>>

SpecLoop == TrackInit /\ [][LoopNext]_vars

\* ------------------------------------------------------- get_all_businesses
\* The catalog of the preference and behaviour calls.
CafeUno == BusinessResponse(1, <<"C", "a", "f", "e", " ", "U", "n", "o">>, <<"G", "o", "o", "d", " ", "f", "o", "o", "d">>, <<<<"F", "O", "O", "D">>>>, <<"N", "a", "i", "r", "o", "b", "i">>, 350, 43, 5)
TechStore == BusinessResponse(2, <<"T", "e", "c", "h">>, <<"s", "t", "o", "r", "e">>, <<<<"T", "E", "C", "H">>>>, <<>>, NoPrice, 48, 7)
SpaBar == BusinessResponse(3, <<"S", "p", "a">>, <<"c", "o", "f", "f", "e", "e", " ", "b", "a", "r">>, <<>>, <<"M", "o", "m", "b", "a", "s", "a">>, 4500, 43, 5)
FoodHall == BusinessResponse(4, <<"H", "a", "l", "l">>, <<>>, <<<<"F", "O", "O", "D">>, <<"B", "A", "R">>>>, <<"N", "a", "i", "r", "o", "b", "i">>, 5000, NoRating, 0)

CatalogInputs == <<CafeUno, TechStore, SpaBar, FoodHall>>

\* The tables of up to four businesses, in id order.
SmallCatalogs ==
    {SelectSeq(CatalogInputs, LAMBDA b : b.id \in S) : S \in SUBSET (1..4)}

BigCatalogSize == 11

\* A table larger than the popular list: ratings rise with the id.
BigCatalog ==
    [i \in 1..BigCatalogSize |->
        BusinessResponse(i, <<"S", "h", "o", "p">>, <<>>, <<IF i % 2 = 0 THEN <<"F", "O", "O", "D">> ELSE <<"T", "E", "C", "H">>>>,
                         <<"N", "a", "i", "r", "o", "b", "i">>, 1000, 30 + i, i)]

Reverse(s) == [i \in 1..Len(s) |-> s[Len(s) + 1 - i]]

\* The orders in which one fetch may return the rows (ORDER BY RAND()): every
\* order of a small table, the table order and its reverse of a large one.
Shuffles(table) ==
    IF Len(table) <= 4
    THEN {[i \in 1..Len(table) |-> table[p[i]]] : p \in Listings(1..Len(table))}
    ELSE {table, Reverse(table)}

BusinessById(id) == (FindBusiness(businesses, id))[1]

\* ----------------------------------------- POST /recommendations/preferences
InterestInputs ==
    {<<>>, <<<<"c", "a", "f", "e">>>>, <<<<"G", "o", "o", "d", " ", "T", "e", "c", "h">>>>, <<<<"z", "z", "z">>, <<"F", "O", "O", "D">>>>, <<<<"s", "p", "a", " ", "b", "a", "r">>>>, <<<<"G", "o", "o", "d", " ", "T", "e", "c", "h">>, <<"f", "o", "o", "d", " ", "c", "o", "u", "r", "t">>>>}
LocationInputs == {<<>>, <<"N", "A", "I">>, <<"x", "y", "z">>}
PriceRangeInputs == {"none", "budget", "moderate", "premium"}
PreferenceLimits == {1, 10}

RecommendPreferences(preferences, limit) ==
    /\ svc = NoCall
    /\ \E all_businesses \in Shuffles(businesses) :
          LET r == PreferenceResult(preferences, all_businesses)
          IN  svc' = [kind |-> "preferences", preferences |-> preferences,
                      limit |-> limit, all_businesses |-> Ids(all_businesses),
                      strict |-> Ids(r.strict), relaxed_ran |-> r.relaxed_ran,
                      recs |-> Ids(r.recs), out |-> Take(Ids(r.recs), limit)]
    /\ UNCHANGED <<user_behavior, appended, businesses, anonymous>>

\* The response is sent.
ServiceRespond ==
    /\ svc # NoCall
    /\ svc' = NoCall
    /\ UNCHANGED <<user_behavior, appended, businesses, anonymous>>

PreferenceInit ==
    /\ EngineInit
    /\ user_behavior = <<>>
    /\ appended = <<>>
    /\ businesses \in SmallCatalogs
    /\ svc = NoCall
    /\ anonymous = FALSE
    /\ ProcessorInit
    /\ LoopInit
    /\ TrainerInit

PreferenceServiceNext ==
    \/ \E ints \in InterestInputs, loc \in LocationInputs, pr \in PriceRangeInputs,
          limit \in PreferenceLimits :
          RecommendPreferences(UserPreferences(ints, loc, pr), limit)
    \/ ServiceRespond

PreferenceNext == PreferenceServiceNext /\ UNCHANGED <<engineVars, processorVars, loopVars, trainerVars>>

SpecPreference == PreferenceInit /\ [][PreferenceNext]_vars

\* ---------------------------------------------- POST /recommendations/behavior
\* The lists recommend_based_on_behavior may return for one user.
BehaviorResults(user_id) ==
    LET data == BehaviorData(user_behavior, user_id)
        popular == {PopularBusinesses(f) : f \in Shuffles(businesses)}
    IN  IF user_id = NoUser \/ (data.viewed = <<>> /\ data.purchased = <<>>)
        THEN popular
        ELSE UNION {LET unique == BehaviorRecommendations(all_businesses,
                                                          data.viewed, data.purchased)
                    IN  IF unique # <<>> THEN {unique} ELSE popular
                    : all_businesses \in Shuffles(businesses)}

RecommendBehavior(user_id, limit) ==
    /\ svc = NoCall
    /\ \E recs \in BehaviorResults(user_id) :
          svc' = [kind |-> "behavior", user_id |-> user_id, limit |-> limit,
                  recs |-> Ids(recs), out |-> Take(Ids(recs), limit)]
    /\ UNCHANGED <<user_behavior, appended, businesses, anonymous>>

BehaviorUsers == {NoUser, 1, 2}
BehaviorLimits == {1, 2, BigCatalogSize}

BehaviorInit ==
    /\ EngineInit
    /\ user_behavior = <<>>
    /\ appended = <<>>
    /\ businesses \in SmallCatalogs \cup {BigCatalog}
    /\ svc = NoCall
    /\ anonymous = FALSE
    /\ ProcessorInit
    /\ LoopInit
    /\ TrainerInit

BehaviorServiceNext ==
    \/ \E b \in {1, 2, 4}, a \in {"view", "purchase"} : TrackUserBehavior(1, b, a)
    \/ \E u \in BehaviorUsers, limit \in BehaviorLimits : RecommendBehavior(u, limit)
    \/ ServiceRespond

BehaviorNext == BehaviorServiceNext /\ UNCHANGED <<engineVars, processorVars, loopVars, trainerVars>>

SpecBehavior == BehaviorInit /\ [][BehaviorNext]_vars

\* The last n entries of a list.
LastN(s, n) == SubSeq(s, Len(s) - Min(n, Len(s)) + 1, Len(s))

\* C3: every user's viewed list has at most 20 entries and purchased list
\* at most 10, and each list is the most recently appended ids in the order
\* of their appends (the entry dropped at capacity is the oldest).
C3_BoundedOldestFirst ==
    \A u \in DOMAIN user_behavior :
        /\ Len(user_behavior[u].viewed) <= 20
        /\ Len(user_behavior[u].purchased) <= 10
        /\ user_behavior[u].viewed = LastN(appended[u].viewed, 20)
        /\ user_behavior[u].purchased = LastN(appended[u].purchased, 10)

\* A user whose two lists have both dropped an entry.
C3_Witness ==
    \E u \in DOMAIN user_behavior :
        /\ Len(appended[u].viewed) > 20
        /\ Len(appended[u].purchased) > 10

\* C6: in a call of recommend_based_on_preferences that reaches the strict
\* stage, the relaxed stage runs if and only if the strict stage kept no
\* business and interests are given; and when the strict stage kept at least
\* one business, the list returned holds exactly the businesses it kept.
C6_RelaxedOnlyAfterEmptyStrict ==
    (svc.kind = "preferences" /\ svc.all_businesses # <<>>) =>
        /\ svc.relaxed_ran <=>
              (svc.strict = <<>> /\ svc.preferences.interests # <<>>)
        /\ svc.strict # <<>> =>
              /\ Range(svc.recs) = Range(svc.strict)
              /\ Len(svc.recs) = Len(svc.strict)

\* The relaxed stage ran and found two businesses the strict stage had not.
C6_Witness ==
    /\ svc.kind = "preferences"
    /\ svc.relaxed_ran
    /\ svc.strict = <<>>
    /\ Len(svc.recs) >= 2

\* C7: for an absent user id or a user with no recorded behaviour, the
\* businesses returned are the first `limit` of the whole catalog in
\* descending order of (rating, review_count), whatever the limit.
C7_PopularFirstLimit ==
    (/\ svc.kind = "behavior"
     /\ \/ svc.user_id = NoUser
        \/ BehaviorData(user_behavior, svc.user_id) = NewBehavior) =>
        /\ Len(svc.out) = Min(svc.limit, Len(businesses))
        /\ NoDup(svc.out)
        /\ Range(svc.out) \subseteq Range(Ids(businesses))
        /\ \A i \in 1..Len(svc.out) :
              /\ \A j \in (i + 1)..Len(svc.out) :
                    ~PopularKeyLess(BusinessById(svc.out[i]), BusinessById(svc.out[j]))
              /\ \A k \in 1..Len(businesses) :
                    businesses[k].id \notin Range(svc.out) =>
                        ~PopularKeyLess(BusinessById(svc.out[i]), businesses[k])

\* The purchased businesses of a user that are in the catalog.
PurchasedInCatalog(user_id) ==
    {id \in Range(BehaviorData(user_behavior, user_id).purchased) :
        id \in Range(Ids(businesses))}

\* C8: for a user one of whose purchased businesses has a category-mate in
\* the catalog, every business returned shares a category with a purchased
\* business and is not itself in the user's purchased list.
C8_OnlyUnpurchasedCategoryMates ==
    (/\ svc.kind = "behavior"
     /\ svc.user_id # NoUser
     /\ \E p \in PurchasedInCatalog(svc.user_id) :
           \E k \in 1..Len(businesses) :
              /\ businesses[k].id # p
              /\ SharesCategory(BusinessById(p), businesses[k])) =>
        \A i \in 1..Len(svc.recs) :
            /\ svc.recs[i] \notin Range(BehaviorData(user_behavior, svc.user_id).purchased)
            /\ \E p \in PurchasedInCatalog(svc.user_id) :
                  SharesCategory(BusinessById(p), BusinessById(svc.recs[i]))

\* C9: the strict stage keeps a business exactly when the location
\* preference is absent or a case-insensitive substring of the business's
\* location, the price-range preference is absent or equal to the business's
\* price bucket, and the interests are absent or one of them is a
\* case-insensitive substring of name, description and categories; so a
\* business without a location is dropped when a location is preferred.
C9_StrictKeepsIff ==
    svc.kind = "preferences" =>
        \A k \in 1..Len(svc.all_businesses) :
            LET b == BusinessById(svc.all_businesses[k])
                p == svc.preferences
            IN  (b.id \in Range(svc.strict)) <=>
                    /\ \/ p.location = <<>>
                       \/ SubstringOf(Lower(p.location), Lower(b.location))
                    /\ \/ p.price_range = "none"
                       \/ PriceRangeOf(b.price) = p.price_range
                    /\ \/ p.interests = <<>>
                       \/ \E i \in 1..Len(p.interests) :
                             SubstringOf(Lower(p.interests[i]), SearchableText(b))

\* ---------------------------------- DataProcessor.preprocess_user_behavior_data
Batches ==
    {[rows |-> rows, has_timestamp |-> h] :
        rows \in SeqsUpTo(EventInputs, MaxBatch), h \in BOOLEAN}

\* preprocess_user_behavior_data is called on the batch.
Preprocess ==
    /\ ~df.returned
    /\ df' = [returned |-> TRUE,
              rows |-> PreprocessUserBehaviorData(batch.rows, batch.has_timestamp)]
    /\ UNCHANGED batch

WeightingInit ==
    /\ EngineInit
    /\ ServiceInit
    /\ LoopInit
    /\ TrainerInit
    /\ batch \in Batches
    /\ df = NoFrame

WeightingNext == Preprocess /\ UNCHANGED <<engineVars, serviceVars, loopVars, trainerVars>>

SpecWeighting == WeightingInit /\ [][WeightingNext]_vars

\* C11: every weight the weighting step computes is non-negative, and of
\* two events of one action kind the older has the strictly smaller weight.
C11_NonNegativeDecreasingInAge ==
    (df.returned /\ batch.has_timestamp) =>
        /\ \A i \in 1..Len(df.rows) : FloatNonNegative(df.rows[i].weight)
        /\ \A i, j \in 1..Len(df.rows) :
              (/\ df.rows[i].action_type = df.rows[j].action_type
               /\ df.rows[i].action_timestamp < df.rows[j].action_timestamp) =>
                  FloatLess(df.rows[i].weight, df.rows[j].weight)

\* C12: a call of track_user_behavior without a user id leaves the whole
\* behaviour store as it was: no entry is created and no list is changed,
\* whatever the business id and the action.
C12_AnonymousTrackIsNoOp ==
    [][anonymous' => user_behavior' = user_behavior]_vars

\* A call without a user id has just been made on a store that holds lists.
C12_Witness ==
    /\ anonymous
    /\ \E u \in DOMAIN user_behavior :
          user_behavior[u].viewed # <<>> /\ user_behavior[u].purchased # <<>>

\* C13: HybridRecommender.get_recommendations returns [] whenever one of
\* the two sub-engines has not completed a training of its own, as when the
\* content index was built from a catalog and the interaction log was empty.
C13_EmptyUnlessBothTrained ==
    (/\ lastQ.kind = "hybrid"
     /\ \/ content_based.business_vectors.isNone
        \/ collaborative.user_similarity_matrix.isNone) =>
        lastQ.recs = <<>>

\* The rows and the columns of a matrix (none for a matrix that is None).
Rows(matrix) == Len(matrix.m)
ColumnsAre(matrix, n) == \A i \in 1..Len(matrix.m) : Len(matrix.m[i]) = n

\* C14: in every state, the content index has one business id per row of
\* its vector matrix, and the collaborative engine's user ids and business
\* ids are the rows and columns of its interaction matrix, its user ids the
\* rows and columns of its similarity matrix.
C14_IdsMatchMatrices ==
    /\ Len(content_based.business_ids) = Rows(content_based.business_vectors)
    /\ Len(collaborative.user_ids) = Rows(collaborative.interaction_matrix)
    /\ ColumnsAre(collaborative.interaction_matrix, Len(collaborative.business_ids))
    /\ Len(collaborative.user_ids) = Rows(collaborative.user_similarity_matrix)
    /\ ColumnsAre(collaborative.user_similarity_matrix, Len(collaborative.user_ids))

\* The interaction rows that carry a user id.
WellFormed(interactions) == SelectSeq(interactions, LAMBDA r : r.user_id # NullUserId)

\* C15: when the interaction rows of a pass hold a row without a user id,
\* the pass does not fail and the collaborative engine is trained on the
\* other rows.
C15_MalformedRowSkipped ==
    [][ (/\ CollabTrainStep(TRUE)
         /\ \E i \in 1..Len(InteractionRows(catalog, behavior_log)) :
               InteractionRows(catalog, behavior_log)[i].user_id = NullUserId) =>
            /\ is_trained'
            /\ collaborative' =
                  CollabTrain(collaborative,
                              WellFormed(InteractionRows(catalog, behavior_log)))
      ]_vars

\* C16: when both candidate lists are non-empty, the result begins with the
\* first min(limit // 2, |content|) content candidates in their order, and
\* the first min(limit // 2, |collaborative|) collaborative candidates in
\* their order come right after them.
C16_HalvesContentFirst ==
    (lastQ.kind = "hybrid" /\ lastQ.content_recs # <<>> /\ lastQ.collab_recs # <<>>) =>
        LET cc == Min(lastQ.limit \div 2, Len(lastQ.content_recs))
            fc == Min(lastQ.limit \div 2, Len(lastQ.collab_recs))
        IN  /\ Len(lastQ.recs) >= cc + fc
            /\ SubSeq(lastQ.recs, 1, cc) = SubSeq(lastQ.content_recs, 1, cc)
            /\ SubSeq(lastQ.recs, cc + 1, cc + fc) = SubSeq(lastQ.collab_recs, 1, fc)

\* A merge of two lists with different heads, each giving an item.
C16_Witness ==
    /\ lastQ.kind = "hybrid"
    /\ lastQ.limit >= 2
    /\ lastQ.content_recs # <<>> /\ lastQ.collab_recs # <<>>
    /\ lastQ.content_recs[1] # lastQ.collab_recs[1]

\* C17: when both candidate lists are non-empty, the result holds
\* min(limit, number of distinct candidates of the two lists) distinct ids.
C17_DistinctCountReachesLimit ==
    (lastQ.kind = "hybrid" /\ lastQ.content_recs # <<>> /\ lastQ.collab_recs # <<>>) =>
        Cardinality(Range(lastQ.recs)) =
            Min(lastQ.limit,
                Cardinality(Range(lastQ.content_recs) \cup Range(lastQ.collab_recs)))

RECURSIVE StableUnion(_, _)
\* The ids of a list without repeats, in the order of their first places.
StableUnion(ids, seen) ==
    IF ids = <<>> THEN <<>>
    ELSE IF ids[1] \in seen THEN StableUnion(Tail(ids), seen)
    ELSE <<ids[1]>> \o StableUnion(Tail(ids), seen \cup {ids[1]})

\* C18: what the result takes from the union of the candidates, it takes in
\* the order content candidates first, collaborative candidates after, each
\* in rank order: the top-up items, and the whole result when one list is
\* empty (the first `limit` items of the other list).
C18_UnionInStableOrder ==
    lastQ.kind = "hybrid" =>
        lastQ.recs = HybridMerge(lastQ.content_recs, lastQ.collab_recs,
                                 StableUnion(lastQ.content_recs \o lastQ.collab_recs, {}),
                                 lastQ.limit)

\* The similarity of two users of the snapshot.
SimilarityOf(f, u, v) ==
    f.user_similarity_matrix.m[IndexOf(f.user_ids, u)][IndexOf(f.user_ids, v)]

\* C19: for a user of the snapshot, the neighbours are the (up to) five
\* other users most similar to the user, the user never among them, equal
\* similarities in the order of the snapshot's user list.
C19_TopFiveOtherUsers ==
    (lastQ.kind = "collab" /\ lastQ.user_id \in Range(collaborative.user_ids)) =>
        LET n == lastQ.neighbours
            u == lastQ.user_id
            sim(v) == SimilarityOf(collaborative, u, v)
            pos(v) == IndexOf(collaborative.user_ids, v)
        IN  /\ u \notin Range(n)
            /\ NoDup(n)
            /\ Len(n) = Min(5, Len(collaborative.user_ids) - 1)
            /\ \A k, l \in 1..Len(n) :
                  k < l => \/ FracLess(sim(n[l]), sim(n[k]))
                           \/ (~FracLess(sim(n[k]), sim(n[l])) /\ pos(n[k]) < pos(n[l]))
            /\ \A v \in Range(collaborative.user_ids) \ (Range(n) \cup {u}) :
                  \A k \in 1..Len(n) :
                      \/ FracLess(sim(v), sim(n[k]))
                      \/ (~FracLess(sim(n[k]), sim(v)) /\ pos(n[k]) < pos(v))

\* The sum of the weights of the rows of one user on one business.
SumWeights(interactions, user_id, business_id) ==
    SumSeq([i \in 1..Len(interactions) |->
               IF interactions[i].user_id = user_id
                  /\ interactions[i].business_id = business_id
               THEN interactions[i].weight ELSE 0])

\* C20: after a pass, every cell of the interaction matrix is the sum of the
\* weights of the user's rows on the business, and is not negative.
C20_CellsAccumulate ==
    (pc = "done" /\ is_trained /\ ~collaborative.interaction_matrix.isNone) =>
        \A u \in Range(collaborative.user_ids), b \in Range(collaborative.business_ids) :
            /\ Cell(collaborative, u, b) =
                  SumWeights(InteractionRows(catalog, behavior_log), u, b)
            /\ Cell(collaborative, u, b) >= 0

\* The base weight of an action kind: view and click 1, share 2, purchase 3.
BaseWeight(action_type) ==
    CASE action_type = "view" -> 1
      [] action_type = "click" -> 1
      [] action_type = "share" -> 2
      [] action_type = "purchase" -> 3

\* The rows of the log on active businesses, in table order.
ActiveRows ==
    SelectSeq(behavior_log,
              LAMBDA r : \E k \in 1..Len(catalog) : catalog[k].BusinessID = r.business_id)

\* C21: after a pass, the cell of a user and a business that have a single
\* interaction row holds the base weight of the row's action kind (view 1,
\* click 1, share 2, purchase 3), so the cell of a viewed business is positive.
C21_BaseWeightInCell ==
    (pc = "done" /\ is_trained /\ ~collaborative.interaction_matrix.isNone) =>
        \A i \in 1..Len(ActiveRows) :
            (\A j \in 1..Len(ActiveRows) :
                j # i => \/ ActiveRows[j].user_id # ActiveRows[i].user_id
                         \/ ActiveRows[j].business_id # ActiveRows[i].business_id) =>
                /\ Cell(collaborative, ActiveRows[i].user_id, ActiveRows[i].business_id)
                      = BaseWeight(ActiveRows[i].action_type)
                /\ Cell(collaborative, ActiveRows[i].user_id, ActiveRows[i].business_id) > 0

\* C22: after a successful collaborative pass the user-similarity matrix is
\* symmetric and every diagonal cell is 1, also for a user whose interaction
\* row is all zero.
C22_SymmetricUnitDiagonal ==
    (pc = "done" /\ is_trained /\ ~collaborative.user_similarity_matrix.isNone) =>
        \A i, j \in 1..Len(collaborative.user_similarity_matrix.m) :
            /\ collaborative.user_similarity_matrix.m[i][j][1]
                  * collaborative.user_similarity_matrix.m[j][i][2]
               = collaborative.user_similarity_matrix.m[j][i][1]
                  * collaborative.user_similarity_matrix.m[i][j][2]
            /\ collaborative.user_similarity_matrix.m[i][i][1]
               = collaborative.user_similarity_matrix.m[i][i][2]

\* The price bucket of a business: budget below 1000, moderate from 1000 and
\* below 5000, premium from 5000; moderate when the price is missing.
PriceBucket(business) ==
    IF business.price = NoPrice THEN "moderate"
    ELSE IF business.price < 1000 THEN "budget"
    ELSE IF business.price < 5000 THEN "moderate"
    ELSE "premium"

\* C23: under a price-range preference the strict stage keeps only
\* businesses whose price bucket equals the preference, a business with no
\* price counting as moderate: it is not kept when the preference is budget
\* or premium.
C23_MissingPriceIsModerate ==
    (svc.kind = "preferences" /\ svc.preferences.price_range # "none") =>
        \A k \in 1..Len(svc.strict) :
            PriceBucket(BusinessById(svc.strict[k])) = svc.preferences.price_range

\* C24: the list recommend_based_on_preferences returns holds no business
\* id twice and is in non-increasing order of rating (a missing rating
\* counting as 0), from the strict stage and from the relaxed stage alike.
C24_UniqueSortedByRating ==
    svc.kind = "preferences" =>
        /\ NoDup(svc.recs)
        /\ \A i, j \in 1..Len(svc.recs) :
              i < j => RatingOrZero(BusinessById(svc.recs[i]))
                          >= RatingOrZero(BusinessById(svc.recs[j]))

\* The relaxed stage ran, one of the businesses returned matches two of the
\* interests by a word, and the businesses returned differ in rating.
C24_Witness ==
    /\ svc.kind = "preferences"
    /\ svc.relaxed_ran
    /\ \E k \in 1..Len(svc.recs) :
          Cardinality({i \in 1..Len(svc.preferences.interests) :
                          WordMatch(svc.preferences.interests[i],
                                    BusinessById(svc.recs[k]))}) >= 2
    /\ \E k, l \in 1..Len(svc.recs) :
          RatingOrZero(BusinessById(svc.recs[k])) > RatingOrZero(BusinessById(svc.recs[l]))

\* C25: when the purchased businesses of the user yield a category-mate,
\* the list returned is the category-mates of the purchased businesses taken
\* from the most recent purchase back to the oldest, without repeats and in
\* first-seen order, so the mates of the most recent purchase come first.
C25_MostRecentPurchaseFirst ==
    (/\ svc.kind = "behavior"
     /\ svc.user_id # NoUser
     /\ SimilarToAll(businesses, BehaviorData(user_behavior, svc.user_id).purchased) # <<>>) =>
        svc.recs \in
            {Ids(Unique(SimilarToAll(f, Reverse(BehaviorData(user_behavior,
                                                             svc.user_id).purchased)), {})) :
                f \in Shuffles(businesses)}

\* The lists of category-mates of a list of tracked ids, one per fetch order.
MatesOf(ids) ==
    {Ids(Unique(SimilarToAll(f, ids), {})) : f \in Shuffles(businesses)}

C27_NoLostUpdate ==
    \A u \in TaskUsers :
        /\ Len(BehaviorData(user_behavior, u).viewed) <= 20
        /\ Len(BehaviorData(user_behavior, u).purchased) <= 10
        /\ Range(BehaviorData(user_behavior, u).viewed) \subseteq recorded[u].viewed
        /\ Range(BehaviorData(user_behavior, u).purchased) \subseteq recorded[u].purchased
        /\ Cardinality(Range(BehaviorData(user_behavior, u).viewed))
              = Min(Cardinality(recorded[u].viewed), 20)
        /\ Cardinality(Range(BehaviorData(user_behavior, u).purchased))
              = Min(Cardinality(recorded[u].purchased), 10)

\* Every call has run, one of them evicted from a full list while another
\* call of the same user waited, and both users hold lists.
C27_Witness ==
    /\ raced
    /\ tasks = {}
    /\ \A u \in TaskUsers : BehaviorData(user_behavior, u).viewed # <<>>

\* C28: a call changes the viewed list only if its action is view or click
\* and the purchased list only if its action is purchase; a call that names
\* an id its target list holds leaves that list as it is; and no list holds
\* an id twice.
C28_AppendOnlyNewIds ==
    [][\A c \in tasks :
          tasks' = tasks \ {c} =>
              LET old == BehaviorData(user_behavior, c.user_id)
                  new == BehaviorData(user_behavior', c.user_id)
              IN  /\ c.action \notin {"view", "click"} => new.viewed = old.viewed
                  /\ c.action # "purchase" => new.purchased = old.purchased
                  /\ c.business_id \in Range(old.viewed) => new.viewed = old.viewed
                  /\ c.business_id \in Range(old.purchased) => new.purchased = old.purchased
                  /\ NoDup(new.viewed)
                  /\ NoDup(new.purchased)
      ]_vars

\* A call has run that named an id held by its full target list.
C28_Witness ==
    /\ repeated
    /\ \E u \in TaskUsers :
          /\ Len(BehaviorData(user_behavior, u).viewed) = 20
          /\ Len(BehaviorData(user_behavior, u).purchased) = 10

\* C29: once a pass has raised, every query is answered with [] until a
\* later pass completes; and no query of a pass that raises was answered
\* from a recommender that the pass had updated in part: each one read the
\* content index and the collaborative engine as the pass found them.
C29_FailedPassHidesPartialState ==
    /\ (lastQ.kind = "hybrid" /\ ~is_trained) => lastQ.recs = <<>>
    /\ (pc = "done" /\ ~is_trained) =>
          \A o \in midObs :
              /\ o.content_based = pre.content_based
              /\ o.collaborative = pre.collaborative

====
